---- MODULE Spec2Model ----
(***************************************************************************)
(* A model of excel_to_calendar.py: a spreadsheet of events is read into   *)
(* a table, its columns are normalised (df_cal_format), every row gets a   *)
(* start/end pair (format_date), and then every row is uploaded to Google  *)
(* Calendar (create_new_event).                                            *)
(*                                                                         *)
(* Cells.  A blank cell is pandas' NaN.  A text cell is Text(s), a date    *)
(* cell a pandas Timestamp, a time cell a datetime.time.  All cells are    *)
(* records, so that any two cells can be compared.                         *)
(***************************************************************************)
EXTENDS Integers, Sequences, FiniteSets, TLC

VARIABLES
    xlsx,          \* the sheet of the file: the rows as the user wrote them
    pc,            \* position in xlsx_to_calendar
    df,            \* the DataFrame: a sequence of rows
    calendarList,  \* what service.calendarList().list() answers
    timezone,      \* the user's 'timezone' setting at the service
    calendars,     \* the name -> id dict df_cal_format builds
    formatted,     \* results df.apply(format_date) has collected so far
    results,       \* results df.apply(create_new_event) has collected so far
    inflight,      \* rows whose events().insert request is executing
    inserted,      \* the service's log: one <<row, calendarId, body>> per event created
    raised,        \* the exception that left xlsx_to_calendar, or NoError
    log            \* history of per-row steps: <<"format_date", i>>, <<"insert", i>>, ...

vars == <<xlsx, pc, df, calendarList, timezone, calendars, formatted, results,
          inflight, inserted, raised, log>>

----------------------------------------------------------------------------
(* Cell values *)

NaN == [nan |-> TRUE]

isna(x) == x = NaN

notna(x) == x # NaN

Text(s) == [text |-> s]

Timestamp(y, m, d, h, mi) == [year |-> y, month |-> m, day |-> d, hour |-> h, minute |-> mi]

Time(h, mi, s) == [hour |-> h, minute |-> mi, second |-> s]

----------------------------------------------------------------------------
(* Python's datetime arithmetic, as far as format_date uses it *)

IsLeap(y) == (y % 4 = 0) /\ ((y % 100 # 0) \/ (y % 400 = 0))

DaysInMonth(y, m) ==
    IF m = 2 THEN (IF IsLeap(y) THEN 29 ELSE 28)
    ELSE IF m \in {4, 6, 9, 11} THEN 30 ELSE 31

DaysBeforeYear(y) ==
    LET n == y - 1 IN n * 365 + (n \div 4) - (n \div 100) + (n \div 400)

RECURSIVE DaysBeforeMonth(_, _)
DaysBeforeMonth(y, m) ==
    IF m = 1 THEN 0 ELSE DaysBeforeMonth(y, m - 1) + DaysInMonth(y, m - 1)

\* date.toordinal(): days since 0001-01-01, that day being 1
ymd2ord(y, m, d) == DaysBeforeYear(y) + DaysBeforeMonth(y, m) + d

\* date.fromordinal(n), by 400-, 100-, 4- and 1-year cycles
ord2ymd(n) ==
    LET n0    == n - 1
        n400  == n0 \div 146097
        r400  == n0 % 146097
        n100  == r400 \div 36524
        r100  == r400 % 36524
        n4    == r100 \div 1461
        r4    == r100 % 1461
        n1    == r4 \div 365
        r1    == r4 % 365
        year  == n400 * 400 + 1 + n100 * 100 + n4 * 4 + n1
        guess == (r1 + 50) \div 32
        month == IF DaysBeforeMonth(year, guess) > r1 THEN guess - 1 ELSE guess
    IN IF n1 = 4 \/ n100 = 4
       THEN [year |-> year - 1, month |-> 12, day |-> 31]
       ELSE [year |-> year, month |-> month,
             day |-> r1 - DaysBeforeMonth(year, month) + 1]

\* dt.datetime(year, month, day, hour, minute): seconds default to 0
datetime(y, m, d, h, mi) ==
    [year |-> y, month |-> m, day |-> d, hour |-> h, minute |-> mi, second |-> 0]

HoursOfDefaultDuration == 1

\* datetime + dt.timedelta(hours=n)
AddHours(x, n) ==
    LET secs == x.hour * 3600 + x.minute * 60 + x.second + n * 3600
        ymd  == ord2ymd(ymd2ord(x.year, x.month, x.day) + (secs \div 86400))
        rest == secs % 86400
    IN [year |-> ymd.year, month |-> ymd.month, day |-> ymd.day,
        hour |-> rest \div 3600, minute |-> (rest % 3600) \div 60, second |-> rest % 60]

\* datetime.isoformat(): 'YYYY-MM-DDTHH:MM:SS', as the tuple of its numbers
isoformat(x) == <<x.year, x.month, x.day, x.hour, x.minute, x.second>>

\* str(Timestamp.date()): 'YYYY-MM-DD', the time of day dropped
DateStr(ts) == <<ts.year, ts.month, ts.day>>

----------------------------------------------------------------------------
(* format_date *)

\* raise Exception("Event must contain a Start Date")
StartDateException == [exception |-> "Event must contain a Start Date"]

Return(v) == [value |-> v]

\* An all-day branch that always ends on the Start Date
AllDayEvent_SingleDay(row) ==
    LET start_date == DateStr(row.StartDate)
    IN <<[date |-> start_date], [date |-> start_date]>>

\* An all-day branch that returns end before start
AllDayEvent_Swapped(row) ==
    LET start_date == DateStr(row.StartDate)
        end_date   == IF isna(row.EndDate) THEN start_date ELSE DateStr(row.EndDate)
    IN <<[date |-> end_date], [date |-> start_date]>>

\* The all-day branch: start and end are dates
AllDayEvent(row) ==
    LET start_date == DateStr(row.StartDate)
        end_date   == IF isna(row.EndDate)
                      THEN start_date                \* single-day event
                      ELSE DateStr(row.EndDate)      \* multi-day event
    IN <<[date |-> start_date], [date |-> end_date]>>

\* An end that takes its day from End Date also when End Time is blank
EndDatetime_EndDateUsed(row, d, start_datetime) ==
    IF isna(row.EndTime)
    THEN IF isna(row.EndDate)
         THEN AddHours(start_datetime, HoursOfDefaultDuration)
         ELSE LET d2 == row.EndDate
              IN AddHours(datetime(d2.year, d2.month, d2.day,
                                   start_datetime.hour, start_datetime.minute),
                          HoursOfDefaultDuration)
    ELSE IF isna(row.EndDate)
    THEN LET t == row.EndTime IN datetime(d.year, d.month, d.day, t.hour, t.minute)
    ELSE LET d2 == row.EndDate
             t  == row.EndTime
         IN datetime(d2.year, d2.month, d2.day, t.hour, t.minute)

\* An end that is moved to the next day when it is not after the start
EndDatetime_Ordered(row, d, start_datetime) ==
    IF isna(row.EndTime)
    THEN AddHours(start_datetime, HoursOfDefaultDuration)
    ELSE LET d2  == IF isna(row.EndDate) THEN d ELSE row.EndDate
             t   == row.EndTime
             end == datetime(d2.year, d2.month, d2.day, t.hour, t.minute)
         IN IF isoformat(end) = isoformat(start_datetime)
               \/ ymd2ord(end.year, end.month, end.day) * 1440 + end.hour * 60 + end.minute
                    < ymd2ord(start_datetime.year, start_datetime.month, start_datetime.day) * 1440
                      + start_datetime.hour * 60 + start_datetime.minute
            THEN AddHours(end, 24)
            ELSE end

\* The end of a timed event that starts at start_datetime on day d
EndDatetime(row, d, start_datetime) ==
    IF isna(row.EndTime)
    THEN AddHours(start_datetime, HoursOfDefaultDuration)
    ELSE IF isna(row.EndDate)
    THEN LET t == row.EndTime IN datetime(d.year, d.month, d.day, t.hour, t.minute)
    ELSE LET d2 == row.EndDate
             t  == row.EndTime
         IN datetime(d2.year, d2.month, d2.day, t.hour, t.minute)

\* The timed branch: start and end are dateTimes with their time zones
TimedEvent(row) ==
    LET d == row.StartDate
        t == row.StartTime
        start_datetime == datetime(d.year, d.month, d.day, t.hour, t.minute)
        end_datetime   == EndDatetime(row, d, start_datetime)
    IN <<[dateTime |-> isoformat(start_datetime), timeZone |-> row.StartTimeZone],
         [dateTime |-> isoformat(end_datetime), timeZone |-> row.EndTimeZone]>>

\* A format_date that takes a blank Start Date from End Date
format_date_EndDateFallback(row) ==
    IF isna(row.StartDate) /\ isna(row.EndDate) THEN StartDateException
    ELSE IF isna(row.StartDate)
    THEN Return(<<[date |-> DateStr(row.EndDate)], [date |-> DateStr(row.EndDate)]>>)
    ELSE IF isna(row.StartTime) THEN Return(AllDayEvent(row))
    ELSE Return(TimedEvent(row))

format_date(row) ==
    IF isna(row.StartDate) THEN StartDateException
    ELSE IF isna(row.StartTime) THEN Return(AllDayEvent(row))
    ELSE Return(TimedEvent(row))

----------------------------------------------------------------------------
(* df_cal_format: the column operations *)

\* Series.fillna(value)
fillna(cell, value) == IF isna(cell) THEN value ELSE cell

\* df['Start Time Zone'].fillna(tz), df['End Time Zone'].fillna(tz)
FillTimeZone(cell, tz) == fillna(cell, tz)

\* A description column that is left as it was read
FillDescription_Skipped(cell) == cell

\* df['description'].fillna("")
FillDescription(cell) == fillna(cell, Text(""))

\* df['Calendar Name'].fillna('Primary')
FillCalendarName(cell) == fillna(cell, Text("Primary"))

access_roles == {"owner", "writer"}

\* linked_calendars(service): { cal['summary'] : cal['id'] for the calendars that
\* can be edited }; of two calendars with one summary the later one stays
linked_calendars(items) ==
    LET editable == SelectSeq(items, LAMBDA cal : cal.accessRole \in access_roles)
        names    == {editable[k].summary : k \in 1..Len(editable)}
        last(n)  == CHOOSE k \in 1..Len(editable) :
                        /\ editable[k].summary = n
                        /\ \A k2 \in (k + 1)..Len(editable) : editable[k2].summary # n
    IN [n \in names |-> editable[last(n)].id]

\* A dict in which 'Primary' is added only when the service lists no such calendar
WithPrimary_IfAbsent(dict) ==
    [n \in DOMAIN dict \cup {"Primary"} |->
        IF n \in DOMAIN dict THEN dict[n] ELSE "primary"]

\* calendars['Primary'] = 'primary'
WithPrimary(dict) ==
    [n \in DOMAIN dict \cup {"Primary"} |-> IF n = "Primary" THEN "primary" ELSE dict[n]]

\* A lookup that falls back to the primary calendar for an unknown name
MapCalendar_Fallback(cell, dict) ==
    IF notna(cell) /\ cell.text \in DOMAIN dict THEN Text(dict[cell.text])
    ELSE Text("primary")

\* Series.map(dict): a value that is no key of the dict becomes NaN
MapCalendar(cell, dict) ==
    IF notna(cell) /\ cell.text \in DOMAIN dict THEN Text(dict[cell.text]) ELSE NaN

\* One row after the renames, the fillnas and the id lookup
NormalizeRow(row, tz, dict) ==
    LET CalendarName == FillCalendarName(row.CalendarName)
    IN [summary       |-> row.Summary,
        description   |-> FillDescription(row.Description),
        StartDate     |-> row.StartDate,
        StartTime     |-> row.StartTime,
        EndDate       |-> row.EndDate,
        EndTime       |-> row.EndTime,
        StartTimeZone |-> FillTimeZone(row.StartTimeZone, tz),
        EndTimeZone   |-> FillTimeZone(row.EndTimeZone, tz),
        CalendarName  |-> CalendarName,
        id            |-> MapCalendar(CalendarName, dict)]

\* df[["start", "end"]] = ...: the row with its two new columns
WithStartEnd(row, pair) ==
    [summary       |-> row.summary,
     description   |-> row.description,
     StartDate     |-> row.StartDate,
     StartTime     |-> row.StartTime,
     EndDate       |-> row.EndDate,
     EndTime       |-> row.EndTime,
     StartTimeZone |-> row.StartTimeZone,
     EndTimeZone   |-> row.EndTimeZone,
     CalendarName  |-> row.CalendarName,
     id            |-> row.id,
     start         |-> pair[1],
     end           |-> pair[2]]

\* dict(row[["summary", "description", "start", "end"]])
event_dict(row) ==
    [summary |-> row.summary, description |-> row.description,
     start |-> row.start, end |-> row.end]

----------------------------------------------------------------------------
(* The tables and the service answers the model is run on *)

MaxRows == 2    \* rows of a table
MaxCals == 1    \* calendars on the service's calendar list

NoError == [exception |-> "none"]

HttpError == [exception |-> "HttpError"]

\* The rows whose cells are taken from the given sets, column by column
RawRows(Sm, Ds, SD, ST, ED, ET, SZ, EZ, CN) ==
    [Summary : Sm, Description : Ds, StartDate : SD, StartTime : ST,
     EndDate : ED, EndTime : ET, StartTimeZone : SZ, EndTimeZone : EZ,
     CalendarName : CN]

Dates == {Timestamp(2024, 2, 29, 0, 0), Timestamp(2024, 3, 1, 9, 15),
          Timestamp(2024, 12, 31, 0, 0)}

Times == {Time(0, 30, 0), Time(14, 0, 0), Time(23, 30, 45)}

\* Rows of the tables of several rows: all-day events on any calendar
TableRows ==
    RawRows({NaN, Text("Lunch")}, {NaN}, {NaN, Timestamp(2024, 3, 1, 0, 0)},
            {NaN}, {NaN}, {NaN}, {NaN}, {NaN},
            {NaN, Text("Primary"), Text("Work"), Text("Holidays")})

\* Rows of the tables of one row: every kind of schedule and of text
SingleRows ==
    RawRows({NaN, Text("Lunch")}, {NaN, Text("Bring notes")},
            {NaN} \cup Dates, {NaN} \cup Times, {NaN} \cup Dates, {NaN} \cup Times,
            {NaN, Text("Asia/Tokyo")}, {NaN, Text("Europe/Paris")},
            {NaN, Text("Work")})

CalendarItems ==
    {[summary |-> "Work",     id |-> "work@group.calendar",     accessRole |-> "owner"],
     [summary |-> "Primary",  id |-> "primary@group.calendar",  accessRole |-> "writer"],
     [summary |-> "Holidays", id |-> "holidays@group.calendar", accessRole |-> "reader"]}

CalendarLists == UNION {[1..n -> CalendarItems] : n \in 0..MaxCals}

Tables == UNION {[1..n -> TableRows] : n \in 1..MaxRows}

InitWith(table) ==
    /\ xlsx = table
    /\ pc = "df_cal_format"
    /\ df = table
    /\ calendarList \in CalendarLists
    /\ timezone = Text("America/Chicago")
    /\ calendars = <<>>
    /\ formatted = <<>>
    /\ results = <<>>
    /\ inflight = {}
    /\ inserted = <<>>
    /\ raised = NoError
    /\ log = <<>>

\* xlsx_to_calendar has connected and read a table of up to MaxRows rows
Init == \E table \in Tables : InitWith(table)

\* xlsx_to_calendar has connected and read a table of one row
InitRow == \E row \in SingleRows : InitWith(<<row>>)

----------------------------------------------------------------------------
(* xlsx_to_calendar, step by step *)

\* df_cal_format up to the id column: renames, default time zone, fillnas,
\* the calendar dict and the lookup of every row's Calendar Name
DfCalFormatColumns ==
    /\ pc = "df_cal_format"
    /\ calendars' = WithPrimary(linked_calendars(calendarList))
    /\ df' = [i \in 1..Len(df) |-> NormalizeRow(df[i], timezone, calendars')]
    /\ pc' = "format_date"
    /\ UNCHANGED <<xlsx, calendarList, timezone, formatted, results, inflight, inserted,
                   raised, log>>

\* service.settings().list().execute() or service.calendarList().list().execute()
\* fails: the HttpError leaves df_cal_format and xlsx_to_calendar
ServiceListRaises ==
    /\ pc = "df_cal_format"
    /\ raised' = HttpError
    /\ pc' = "raised"
    /\ UNCHANGED <<xlsx, df, calendarList, timezone, calendars, formatted, results,
                   inflight, inserted, log>>

\* df.apply(format_date, axis="columns") handles its next row; after the last
\* row the results become the columns start and end and df_cal_format returns
FormatDateRow ==
    /\ pc = "format_date"
    /\ LET i   == Len(formatted) + 1
           out == format_date(df[i])
       IN /\ log' = Append(log, <<"format_date", i>>)
          /\ IF out = StartDateException
             THEN /\ raised' = out
                  /\ pc' = "raised"
                  /\ UNCHANGED <<df, formatted>>
             ELSE /\ formatted' = Append(formatted, out.value)
                  /\ raised' = raised
                  /\ IF i = Len(df)
                     THEN /\ df' = [k \in 1..Len(df) |-> WithStartEnd(df[k], formatted'[k])]
                          /\ pc' = "create_new_event"
                     ELSE /\ df' = df
                          /\ pc' = "format_date"
    /\ UNCHANGED <<xlsx, calendarList, timezone, calendars, results, inflight, inserted>>

\* A df.apply that hands the rows to create_new_event from the last to the first
CreateNewEvent_Reversed ==
    /\ pc = "create_new_event"
    /\ LET j == Len(df) - Len(results)
       IN /\ inflight' = inflight \cup {j}
          /\ log' = Append(log, <<"insert", j>>)
    /\ pc' = "execute"
    /\ UNCHANGED <<xlsx, df, calendarList, timezone, calendars, formatted, results,
                   inserted, raised>>

\* df.apply(create_new_event, axis=1) handles its next row: the insert request
\* for the row is built and sent
CreateNewEvent ==
    /\ pc = "create_new_event"
    /\ LET j == Len(results) + 1
       IN /\ inflight' = inflight \cup {j}
          /\ log' = Append(log, <<"insert", j>>)
    /\ pc' = "execute"
    /\ UNCHANGED <<xlsx, df, calendarList, timezone, calendars, formatted, results,
                   inserted, raised>>

\* The service creates the event and answers; create_new_event returns the result.
\* The service has no calendar for a blank calendarId
ExecuteReturns ==
    /\ pc = "execute"
    /\ LET j   == Len(results) + 1
           row == df[j]
       IN /\ notna(row.id)
          /\ inserted' = Append(inserted, <<j, row.id, event_dict(row)>>)
          /\ results' = Append(results, [status |-> "confirmed", body |-> event_dict(row)])
          /\ inflight' = inflight \ {j}
          /\ log' = Append(log, <<"executed", j>>)
          /\ pc' = IF j = Len(df) THEN "done" ELSE "create_new_event"
    /\ UNCHANGED <<xlsx, df, calendarList, timezone, calendars, formatted, raised>>

\* A failed request that is noted and skipped: the run goes on with the next row
ExecuteRaises_Continue ==
    /\ pc = "execute"
    /\ LET j == Len(results) + 1
       IN /\ inflight' = inflight \ {j}
          /\ log' = Append(log, <<"failed", j>>)
          /\ results' = Append(results, NaN)
          /\ pc' = IF j = Len(df) THEN "raised" ELSE "create_new_event"
    /\ raised' = HttpError
    /\ UNCHANGED <<xlsx, df, calendarList, timezone, calendars, formatted, inserted>>

\* The request fails: the HttpError leaves create_new_event, df.apply and
\* xlsx_to_calendar
ExecuteRaises ==
    /\ pc = "execute"
    /\ LET j == Len(results) + 1
       IN /\ inflight' = inflight \ {j}
          /\ log' = Append(log, <<"failed", j>>)
    /\ raised' = HttpError
    /\ pc' = "raised"
    /\ UNCHANGED <<xlsx, df, calendarList, timezone, calendars, formatted, results, inserted>>

Next ==
    \/ DfCalFormatColumns
    \/ ServiceListRaises
    \/ FormatDateRow
    \/ CreateNewEvent
    \/ ExecuteReturns
    \/ ExecuteRaises

Spec == Init /\ [][Next]_vars

SpecRow == InitRow /\ [][Next]_vars

----------------------------------------------------------------------------
(* Vocabulary of the properties *)

Rows == 1..Len(xlsx)

\* format_date has returned for row i
Resolved(i) == i <= Len(formatted)

\* format_date was called on row i
FormatCalled(i) == \E p \in 1..Len(log) : log[p] = <<"format_date", i>>

\* An isoformat or date string as minutes (days) since 0001-01-01
MinuteOf(iso) == ymd2ord(iso[1], iso[2], iso[3]) * 1440 + iso[4] * 60 + iso[5]

DayOf(str) == ymd2ord(str[1], str[2], str[3])

CalendarDay(ts) == <<ts.year, ts.month, ts.day>>

IsTimed(pair) == "dateTime" \in DOMAIN pair[1]

IsAllDay(pair) == "date" \in DOMAIN pair[1]

\* Row i asks for a timed event of the default duration
DefaultDurationRow(i) ==
    /\ notna(xlsx[i].StartDate)
    /\ notna(xlsx[i].StartTime)
    /\ isna(xlsx[i].EndTime)

\* The end returned for row i is one hour after the start returned for it
OneHourLater(i) ==
    LET s == formatted[i][1].dateTime
        e == formatted[i][2].dateTime
    IN /\ IsTimed(formatted[i])
       /\ MinuteOf(e) = MinuteOf(s) + 60
       /\ e[6] = s[6]
       /\ <<s[1], s[2], s[3]>> = CalendarDay(xlsx[i].StartDate)
       /\ <<s[4], s[5]>> = <<xlsx[i].StartTime.hour, xlsx[i].StartTime.minute>>

----------------------------------------------------------------------------
(* C1 *)

\* C1 as stated: for every row with Start Time present and End Time blank the
\* returned end is one hour after the start and falls on the Start Date's
\* calendar day, whatever the Start Time and the End Date.
C1_SameDayAlways ==
    \A i \in Rows : DefaultDurationRow(i) /\ Resolved(i) =>
        /\ OneHourLater(i)
        /\ LET e == formatted[i][2].dateTime
           IN <<e[1], e[2], e[3]>> = CalendarDay(xlsx[i].StartDate)

\* C1 amended: for every row with Start Time present and End Time blank the
\* returned end is exactly one hour after the start, whatever the End Date; it
\* falls on the Start Date's calendar day when the Start Time is before 23:00
\* and on the following calendar day when the Start Time is 23:00 or later.
C1_OneHourDefault ==
    \A i \in Rows : DefaultDurationRow(i) /\ Resolved(i) =>
        /\ OneHourLater(i)
        /\ LET e == formatted[i][2].dateTime
               d == xlsx[i].StartDate
           IN IF xlsx[i].StartTime.hour < 23
              THEN <<e[1], e[2], e[3]>> = CalendarDay(d)
              ELSE DayOf(e) = ymd2ord(d.year, d.month, d.day) + 1

\* A 23:30 start on 31 December with an End Date given and no End Time, resolved
C1_Witness ==
    \E i \in Rows :
        /\ DefaultDurationRow(i) /\ Resolved(i)
        /\ xlsx[i].StartTime.hour = 23
        /\ CalendarDay(xlsx[i].StartDate) = <<2024, 12, 31>>
        /\ notna(xlsx[i].EndDate)
        /\ formatted[i][2].dateTime = <<2025, 1, 1, 0, 30, 0>>

----------------------------------------------------------------------------
(* C3 *)

\* C3: for every row whose Start Date is blank, format_date raises the
\* "Event must contain a Start Date" exception whatever the other fields hold,
\* and no start/end pair is produced for the row.
C3_BlankStartDateRaises ==
    \A i \in Rows : isna(xlsx[i].StartDate) =>
        /\ ~Resolved(i)
        /\ FormatCalled(i) =>
              /\ raised = StartDateException
              /\ pc = "raised"
              /\ Len(formatted) = i - 1
              /\ ~("start" \in DOMAIN df[i])

\* format_date has raised on a row that has every field but the Start Date
C3_Witness ==
    \E i \in Rows :
        /\ isna(xlsx[i].StartDate) /\ FormatCalled(i)
        /\ notna(xlsx[i].StartTime) /\ notna(xlsx[i].EndDate) /\ notna(xlsx[i].EndTime)
        /\ notna(xlsx[i].StartTimeZone) /\ notna(xlsx[i].CalendarName)
        /\ raised = StartDateException

----------------------------------------------------------------------------
(* C5 *)

\* C5: for every row with Start Date present and Start Time blank, format_date
\* returns start {date: Start Date} and end {date: End Date}, or {date: Start
\* Date} when End Date is blank; neither has a time of day or a time zone,
\* whatever End Time and the time zones hold.
C5_AllDayPair ==
    \A i \in Rows :
        notna(xlsx[i].StartDate) /\ isna(xlsx[i].StartTime) /\ Resolved(i) =>
            /\ DOMAIN formatted[i][1] = {"date"}
            /\ DOMAIN formatted[i][2] = {"date"}
            /\ formatted[i][1].date = CalendarDay(xlsx[i].StartDate)
            /\ formatted[i][2].date =
                  IF isna(xlsx[i].EndDate) THEN CalendarDay(xlsx[i].StartDate)
                  ELSE CalendarDay(xlsx[i].EndDate)
            /\ Len(formatted[i][1].date) = 3
            /\ Len(formatted[i][2].date) = 3

\* An all-day pair over several days from a row that has an End Time and time
\* zones, and a Start Date cell that carries a time of day
C5_Witness ==
    \E i \in Rows :
        /\ notna(xlsx[i].StartDate) /\ isna(xlsx[i].StartTime) /\ Resolved(i)
        /\ xlsx[i].StartDate.hour # 0
        /\ notna(xlsx[i].EndDate) /\ xlsx[i].EndDate # xlsx[i].StartDate
        /\ notna(xlsx[i].EndTime)
        /\ notna(xlsx[i].StartTimeZone) /\ notna(xlsx[i].EndTimeZone)

----------------------------------------------------------------------------
(* C6 *)

\* C6 as stated: every all-day pair format_date returns has an end date that
\* is not before its start date, whatever Start Date and End Date hold.
C6_EndNotBeforeStart ==
    \A i \in Rows : Resolved(i) /\ IsAllDay(formatted[i]) =>
        DayOf(formatted[i][2].date) >= DayOf(formatted[i][1].date)

\* C6 amended: an all-day pair has an end date that is not before its start
\* date when the row's End Date is blank (then both are equal) or is not before
\* its Start Date; an End Date before the Start Date is returned as it is, so
\* that the end date is before the start date.
C6_EndOrderFollowsRow ==
    \A i \in Rows : Resolved(i) /\ IsAllDay(formatted[i]) =>
        LET s == DayOf(formatted[i][1].date)
            e == DayOf(formatted[i][2].date)
        IN /\ isna(xlsx[i].EndDate) => e = s
           /\ notna(xlsx[i].EndDate) =>
                 (e >= s <=> DayOf(CalendarDay(xlsx[i].EndDate))
                              >= DayOf(CalendarDay(xlsx[i].StartDate)))

\* An all-day pair of several days, in order, has been returned
C6_Witness ==
    \E i \in Rows :
        /\ Resolved(i) /\ IsAllDay(formatted[i])
        /\ notna(xlsx[i].EndDate)
        /\ DayOf(formatted[i][2].date) > DayOf(formatted[i][1].date)

----------------------------------------------------------------------------
(* C10 *)

\* C10: for every row with Start Date, Start Time and End Time present, the
\* returned end has the hour and minute of End Time on the day of End Date,
\* or of Start Date when End Date is blank; it is returned as it is also when
\* it is before the start.
C10_EndAsGiven ==
    \A i \in Rows :
        /\ notna(xlsx[i].StartDate) /\ notna(xlsx[i].StartTime)
        /\ notna(xlsx[i].EndTime) /\ Resolved(i)
        => LET e   == formatted[i][2].dateTime
               day == IF isna(xlsx[i].EndDate) THEN xlsx[i].StartDate ELSE xlsx[i].EndDate
           IN /\ IsTimed(formatted[i])
              /\ <<e[1], e[2], e[3]>> = CalendarDay(day)
              /\ <<e[4], e[5], e[6]>> = <<xlsx[i].EndTime.hour, xlsx[i].EndTime.minute, 0>>

\* Start Time 23:30, End Time 00:30, End Date blank: the end returned is 23
\* hours before the start
C10_Witness ==
    \E i \in Rows :
        /\ notna(xlsx[i].StartDate) /\ isna(xlsx[i].EndDate) /\ Resolved(i)
        /\ notna(xlsx[i].StartTime) /\ xlsx[i].StartTime.hour = 23
        /\ notna(xlsx[i].EndTime) /\ xlsx[i].EndTime.hour = 0
        /\ MinuteOf(formatted[i][2].dateTime) = MinuteOf(formatted[i][1].dateTime) - 1380

----------------------------------------------------------------------------
(* Vocabulary of the properties of a whole run *)

\* df_cal_format has normalised the columns and looked the ids up
Normalized == pc # "df_cal_format" /\ calendars # <<>>

Positions(entry) == {p \in 1..Len(log) : log[p] = entry}

\* The rows 1..n, and no others, were created at the service, once each, in order
InsertedUpTo(n) ==
    /\ Len(inserted) = n
    /\ \A m \in 1..n : inserted[m][1] = m

\* The name row i's calendar is looked up under
LookupName(i) ==
    IF isna(xlsx[i].CalendarName) THEN "Primary" ELSE xlsx[i].CalendarName.text

\* The service lists a calendar of that name that the user can write to
Writable(name) ==
    \E k \in 1..Len(calendarList) :
        /\ calendarList[k].summary = name
        /\ calendarList[k].accessRole \in {"owner", "writer"}

Unresolved(i) == LookupName(i) # "Primary" /\ ~Writable(LookupName(i))

----------------------------------------------------------------------------
(* C2 *)

\* C2 as stated: each row is taken through format_date and the insert before
\* any step of the next row: for i < j, row i's insert has been executed when
\* format_date is called on row j.
C2_RowByRow ==
    \A i, j \in Rows : i < j /\ FormatCalled(j) => Positions(<<"executed", i>>) # {}

\* C2 amended: the run has two passes, each in table order: format_date
\* is called on every row of the table before the first insert is sent, and then
\* the rows are inserted one by one, row i's insert having been executed before
\* row j's is sent, for every i < j.
C2_TwoPasses ==
    /\ \A p, q \in 1..Len(log) :
          p < q /\ log[p][1] = log[q][1] /\ log[p][1] \in {"format_date", "insert"}
              => log[p][2] < log[q][2]
    /\ \A p \in 1..Len(log) : log[p][1] = "insert" =>
          /\ \A i \in Rows : \E q \in 1..(p - 1) : log[q] = <<"format_date", i>>
          /\ \A i \in Rows : Resolved(i) /\ "start" \in DOMAIN df[i]
          /\ \A i \in 1..(log[p][2] - 1) :
                \E q \in 1..(p - 1) : log[q] = <<"executed", i>>
    /\ \A p \in 1..Len(log) : log[p][1] = "format_date" => log[p][2] = p
    /\ \A p \in 1..Len(log) : log[p][1] = "executed" =>
          p > 1 /\ log[p - 1] = <<"insert", log[p][2]>>

\* A run over two rows has ended: both were resolved, then both were inserted
C2_Witness ==
    /\ pc = "done"
    /\ Len(xlsx) >= 2
    /\ log[1] = <<"format_date", 1>> /\ log[2] = <<"format_date", 2>>
    /\ log[3] = <<"insert", 1>> /\ log[4] = <<"executed", 1>>
    /\ log[5] = <<"insert", 2>> /\ log[6] = <<"executed", 2>>

----------------------------------------------------------------------------
(* C4 *)

\* C4: when the insert for row k fails the run ends there: rows 1..k-1 were each
\* created once, in table order, row k's insert was sent once, no later
\* row's insert was sent, the HttpError and no result list leaves
\* xlsx_to_calendar; and never is more than one insert in flight.
C4_AbortOnFailure ==
    /\ Cardinality(inflight) <= 1
    /\ \A k \in Rows : Positions(<<"failed", k>>) # {} =>
          /\ log[Len(log)] = <<"failed", k>>
          /\ pc = "raised" /\ raised = HttpError
          /\ InsertedUpTo(k - 1)
          /\ Len(results) = k - 1
          /\ Cardinality(Positions(<<"insert", k>>)) = 1
          /\ \A j \in Rows : j > k => Positions(<<"insert", j>>) = {}
          /\ \A j \in 1..(k - 1) : Cardinality(Positions(<<"insert", j>>)) = 1
          /\ inflight = {}

\* The insert for the second row has failed after the first row was created
C4_Witness ==
    /\ Positions(<<"failed", 2>>) # {}
    /\ raised = HttpError
    /\ Len(inserted) = 1
    /\ notna(df[2].id)

----------------------------------------------------------------------------
(* C7 *)

\* C7 as stated: after the normalisation every row's summary, description,
\* Start Time Zone, End Time Zone and Calendar Name are non-blank.
C7_AllTextNonBlank ==
    Normalized => \A i \in Rows :
        /\ notna(df[i].summary)
        /\ notna(df[i].description)
        /\ notna(df[i].StartTimeZone)
        /\ notna(df[i].EndTimeZone)
        /\ notna(df[i].CalendarName)

\* C7 amended: after the normalisation every row's description, Start Time
\* Zone, End Time Zone and Calendar Name are non-blank (a blank one has become
\* "", the default time zone and "Primary"); the summary has no default and is
\* as it was read, blank if it was blank.
C7_DefaultedNonBlank ==
    Normalized => \A i \in Rows :
        /\ notna(df[i].description)
        /\ notna(df[i].StartTimeZone)
        /\ notna(df[i].EndTimeZone)
        /\ notna(df[i].CalendarName)
        /\ isna(xlsx[i].Description) => df[i].description = Text("")
        /\ isna(xlsx[i].StartTimeZone) => df[i].StartTimeZone = timezone
        /\ isna(xlsx[i].EndTimeZone) => df[i].EndTimeZone = timezone
        /\ isna(xlsx[i].CalendarName) => df[i].CalendarName = Text("Primary")
        /\ df[i].summary = xlsx[i].Summary

\* A row whose five text fields were all blank has been normalised
C7_Witness ==
    /\ Normalized
    /\ \E i \in Rows :
          /\ isna(xlsx[i].Summary) /\ isna(xlsx[i].Description)
          /\ isna(xlsx[i].StartTimeZone) /\ isna(xlsx[i].EndTimeZone)
          /\ isna(xlsx[i].CalendarName)
          /\ df[i].description = Text("")

----------------------------------------------------------------------------
(* C8 *)

\* C8: a row whose Calendar Name is no calendar the user can write to gets a
\* blank id; neither the lookup nor format_date fails on it for that; the
\* row fails when its insert is executed, after every earlier row has been
\* created, and it is never created.
C8_UnresolvedFailsAtInsert ==
    \A i \in Rows : Normalized /\ Unresolved(i) =>
        /\ isna(df[i].id)
        /\ FormatCalled(i) /\ notna(xlsx[i].StartDate) => Resolved(i)
        /\ Len(log) > 0 /\ log[Len(log)][2] = i /\ raised # NoError
           /\ notna(xlsx[i].StartDate)
              => /\ log[Len(log)] = <<"failed", i>>
                 /\ raised = HttpError
                 /\ InsertedUpTo(i - 1)
        /\ \A m \in 1..Len(inserted) : inserted[m][1] # i

\* The second row names a calendar the user can only read; its insert has
\* failed after the first row was created
C8_Witness ==
    /\ Len(xlsx) >= 2
    /\ Normalized /\ Unresolved(2)
    /\ \E k \in 1..Len(calendarList) : calendarList[k].summary = LookupName(2)
    /\ Len(log) > 0
    /\ log[Len(log)] = <<"failed", 2>>
    /\ InsertedUpTo(1)

----------------------------------------------------------------------------
(* C9 *)

\* C9: the name "Primary", written in the row or put in for a blank Calendar
\* Name, gets the id 'primary', also when the service lists a writable calendar
\* named "Primary" with another id; that is the calendarId of the row's insert.
C9_PrimaryIsSentinel ==
    Normalized =>
        /\ calendars["Primary"] = "primary"
        /\ \A i \in Rows : LookupName(i) = "Primary" =>
              /\ df[i].id = Text("primary")
              /\ \A m \in 1..Len(inserted) :
                    inserted[m][1] = i => inserted[m][2] = Text("primary")

\* The service lists a writable calendar named "Primary"; a row with a blank
\* Calendar Name and a row that says "Primary" have both been created
C9_Witness ==
    /\ \E k \in 1..Len(calendarList) :
          /\ calendarList[k].summary = "Primary"
          /\ calendarList[k].accessRole \in access_roles
          /\ calendarList[k].id # "primary"
    /\ Len(xlsx) >= 2
    /\ isna(xlsx[1].CalendarName)
    /\ xlsx[2].CalendarName = Text("Primary")
    /\ InsertedUpTo(2)

====
